---------------------------- MODULE Spec2Model ----------------------------
(***************************************************************************)
(* A model of the Flask company/market-data endpoint project               *)
(* (app/utils.py, app/routes.py).                                          *)
(*                                                                         *)
(* Python strings are modelled as sequences of one-character strings, so   *)
(* that strip(), upper() and lower() are computed rather than assumed.     *)
(* Optional values (None, a missing JSON key, a missing query argument)    *)
(* are the record Absent; a present value x is Some(x).                    *)
(*                                                                         *)
(* Specifications:                                                         *)
(*   Spec         the four request handlers of routes.py                   *)
(*   SymbolSpec   normalize_symbol applied to every bounded input          *)
(*   RangeSpec    build_date_range applied to every bounded input          *)
(*   PayloadSpec  normalize_history_payload on every bounded payload       *)
(*   InsightSpec  generate_insights_from_history on every bounded frame    *)
(***************************************************************************)
EXTENDS Integers, Sequences, FiniteSets

VARIABLES pc, op, arg, res, calls, logs

vars == <<pc, op, arg, res, calls, logs>>

(***************************************************************************)
(* Bounds of the model.                                                    *)
(***************************************************************************)
\* longest symbol string enumerated by SymbolSpec
MaxSymLen == 4

(***************************************************************************)
(* Optional values.                                                        *)
(***************************************************************************)
Absent == [some |-> FALSE, v |-> <<>>]

Some(x) == [some |-> TRUE, v |-> x]

\* the value a variable holds before the operation has produced one
NoValue == [error |-> "pending"]

(***************************************************************************)
(* Strings: str.strip(), str.upper(), str.lower().                         *)
(***************************************************************************)
Whitespace == {" "}

LowerLetters ==
    <<"a", "b", "c", "d", "e", "f", "g", "h", "i", "j", "k", "l", "m",
      "n", "o", "p", "q", "r", "s", "t", "u", "v", "w", "x", "y", "z">>

UpperLetters ==
    <<"A", "B", "C", "D", "E", "F", "G", "H", "I", "J", "K", "L", "M",
      "N", "O", "P", "Q", "R", "S", "T", "U", "V", "W", "X", "Y", "Z">>

IndexIn(c, letters) == CHOOSE i \in 1..Len(letters) : letters[i] = c

IsIn(c, letters) == \E i \in 1..Len(letters) : letters[i] = c

UpperChar(c) == IF IsIn(c, LowerLetters) THEN UpperLetters[IndexIn(c, LowerLetters)] ELSE c

LowerChar(c) == IF IsIn(c, UpperLetters) THEN LowerLetters[IndexIn(c, UpperLetters)] ELSE c

Upper(s) == [i \in 1..Len(s) |-> UpperChar(s[i])]

Lower(s) == [i \in 1..Len(s) |-> LowerChar(s[i])]

RECURSIVE LStrip(_)
LStrip(s) == IF s # <<>> /\ Head(s) \in Whitespace THEN LStrip(Tail(s)) ELSE s

RECURSIVE RStrip(_)
RStrip(s) ==
    IF s # <<>> /\ s[Len(s)] \in Whitespace THEN RStrip(SubSeq(s, 1, Len(s) - 1)) ELSE s

Strip(s) == RStrip(LStrip(s))

\* Python truthiness of an optional string: None and "" are falsy
Truthy(x) == x.some /\ x.v # <<>>

(***************************************************************************)
(* utils.normalize_symbol                                                  *)
(***************************************************************************)
NormalizeSymbol(symbol) ==
    IF ~Truthy(symbol)
    THEN [error |-> "InvalidSymbol", value |-> <<>>]
    ELSE [error |-> "none", value |-> Upper(Strip(symbol.v))]

SymChars == {" ", "a", "A"}

StringsUpTo(chars, n) == UNION {[1..k -> chars] : k \in 0..n}

SymbolInputs == {Absent} \cup {Some(s) : s \in StringsUpTo(SymChars, MaxSymLen)}

SymbolInit ==
    /\ pc = "input"
    /\ op = "normalize_symbol"
    /\ arg \in SymbolInputs
    /\ res = NoValue
    /\ calls = 0
    /\ logs = 0

NormalizeSymbolCall ==
    /\ pc = "input"
    /\ op = "normalize_symbol"
    /\ res' = NormalizeSymbol(arg)
    /\ pc' = "output"
    /\ UNCHANGED <<op, arg, calls, logs>>

SymbolNext == NormalizeSymbolCall

SymbolSpec == SymbolInit /\ [][SymbolNext]_vars

IsBlank(s) == \A i \in 1..Len(s) : s[i] \in Whitespace

\* C5: normalize_symbol fails with InvalidSymbol for every input that is
\* missing, empty or made only of whitespace, returns the trimmed, uppercased
\* form of every other string, and never returns the empty string.
C5_BlankSymbolRejected ==
    (pc = "output" /\ op = "normalize_symbol") =>
        /\ (~arg.some \/ IsBlank(arg.v)) => res.error = "InvalidSymbol"
        /\ (arg.some /\ ~IsBlank(arg.v)) =>
               (res.error = "none" /\ res.value = Upper(Strip(arg.v)))
        /\ res.error = "none" => res.value # <<>>

(***************************************************************************)
(* Dates.  An ISO date string is modelled by its fields <<year, month,     *)
(* day>>; the empty tuple is the empty string.  A datetime is its          *)
(* proleptic Gregorian ordinal (date.toordinal), so that timedelta(days=n) *)
(* is integer addition.                                                    *)
(***************************************************************************)
DEFAULT_HISTORY_DAYS == 180

\* first calendar year and number of years of the enumerated date strings
FirstYear == 2023

NumYears == 2

IsLeap(y) == (y % 4 = 0) /\ ((y % 100 # 0) \/ (y % 400 = 0))

DaysInMonth(y, m) ==
    IF m = 2 THEN (IF IsLeap(y) THEN 29 ELSE 28)
    ELSE IF m \in {4, 6, 9, 11} THEN 30 ELSE 31

RECURSIVE DaysBeforeMonth(_, _)
DaysBeforeMonth(y, m) ==
    IF m <= 1 THEN 0 ELSE DaysBeforeMonth(y, m - 1) + DaysInMonth(y, m - 1)

ToOrdinal(y, m, d) ==
    365 * (y - 1) + ((y - 1) \div 4) - ((y - 1) \div 100) + ((y - 1) \div 400)
        + DaysBeforeMonth(y, m) + d

IsValidDate(s) ==
    /\ Len(s) = 3
    /\ s[2] \in 1..12
    /\ s[3] \in 1..DaysInMonth(s[1], s[2])

\* utils.parse_iso_date: datetime.fromisoformat, ValueError re-raised
ParseIsoDate(date_str) ==
    IF IsValidDate(date_str)
    THEN [error |-> "none", dt |-> ToOrdinal(date_str[1], date_str[2], date_str[3])]
    ELSE [error |-> "InvalidDate", dt |-> 0]

RangeError(e) == [error |-> e, start |-> 0, end |-> 0]

BuildDateRange_StrictCheck(start, end, now, default_window) ==
    LET e == IF Truthy(end) THEN ParseIsoDate(end.v) ELSE [error |-> "none", dt |-> now]
        s == IF Truthy(start) THEN ParseIsoDate(start.v)
             ELSE [error |-> "none", dt |-> e.dt - default_window]
    IN  IF e.error # "none" THEN RangeError(e.error)
        ELSE IF s.error # "none" THEN RangeError(s.error)
        ELSE IF s.dt >= e.dt THEN RangeError("InvalidRange")
        ELSE [error |-> "none", start |-> s.dt, end |-> e.dt]

\* utils.build_date_range; now is the value of datetime.utcnow()
BuildDateRange(start, end, now, default_window) ==
    LET e == IF Truthy(end) THEN ParseIsoDate(end.v) ELSE [error |-> "none", dt |-> now]
        s == IF Truthy(start) THEN ParseIsoDate(start.v)
             ELSE [error |-> "none", dt |-> e.dt - default_window]
    IN  IF e.error # "none" THEN RangeError(e.error)
        ELSE IF s.error # "none" THEN RangeError(s.error)
        ELSE IF s.dt > e.dt THEN RangeError("InvalidRange")
        ELSE [error |-> "none", start |-> s.dt, end |-> e.dt]

DateMonths == {1, 2, 7, 12, 13}

DateDays == {1, 29, 31, 32}

DateStrings ==
    {<<y, m, d>> : y \in FirstYear..(FirstYear + NumYears - 1), m \in DateMonths, d \in DateDays}

DateInputs == {Absent, Some(<<>>)} \cup {Some(s) : s \in DateStrings}

\* the instants datetime.utcnow() may return
NowValues == {ToOrdinal(FirstYear, 7, 1), ToOrdinal(FirstYear + 1, 2, 29)}

RangeInit ==
    /\ pc = "input"
    /\ op = "build_date_range"
    /\ arg \in [start : DateInputs, end : DateInputs, now : NowValues]
    /\ res = NoValue
    /\ calls = 0
    /\ logs = 0

BuildDateRangeCall ==
    /\ pc = "input"
    /\ op = "build_date_range"
    /\ res' = BuildDateRange(arg.start, arg.end, arg.now, DEFAULT_HISTORY_DAYS)
    /\ pc' = "output"
    /\ UNCHANGED <<op, arg, calls, logs>>

RangeNext == BuildDateRangeCall

RangeSpec == RangeInit /\ [][RangeNext]_vars

\* an optional date string that is absent or a well-formed date
WellFormedOrAbsent(x) == ~x.some \/ IsValidDate(x.v)

ResolvedEnd(a) == IF a.end.some THEN ToOrdinal(a.end.v[1], a.end.v[2], a.end.v[3]) ELSE a.now

ResolvedStart(a) ==
    IF a.start.some THEN ToOrdinal(a.start.v[1], a.start.v[2], a.start.v[3])
    ELSE ResolvedEnd(a) - 180

\* C6: for optional well-formed start/end strings build_date_range fails with
\* InvalidRange exactly when the resolved start is strictly after the resolved
\* end; otherwise it returns (start, end) with start <= end, a provided value
\* returned as given and an absent start equal to end minus 180 days.
C6_RangeResolved ==
    (pc = "output" /\ op = "build_date_range"
        /\ WellFormedOrAbsent(arg.start) /\ WellFormedOrAbsent(arg.end)) =>
        /\ res.error \in {"none", "InvalidRange"}
        /\ res.error = "InvalidRange" <=> ResolvedStart(arg) > ResolvedEnd(arg)
        /\ res.error = "none" =>
               /\ res.start <= res.end
               /\ res.start = ResolvedStart(arg)
               /\ res.end = ResolvedEnd(arg)
               /\ ~arg.start.some => res.start = res.end - 180

\* a request with both dates given and start after end has been refused
C6_Witness_InvalidRange ==
    /\ pc = "output" /\ op = "build_date_range"
    /\ arg.start.some /\ arg.end.some
    /\ IsValidDate(arg.start.v) /\ IsValidDate(arg.end.v)
    /\ res.error = "InvalidRange"

(***************************************************************************)
(* Data frames.  A frame is [columns, index, ix, rows]: the column labels  *)
(* in order (duplicates possible after a rename), the name of the index    *)
(* (<<>> for an unnamed RangeIndex), the index values of a named index     *)
(* (<<>> for a RangeIndex) and the rows, each a sequence of cells aligned  *)
(* with columns.  A cell is [k, n]:                                        *)
(*   "datestr" n  a string that pandas parses to the day n                 *)
(*   "badstr"     a string that pandas cannot parse as a date              *)
(*   "ts" n       a Timestamp of day n,   "nat"  NaT                       *)
(*   "num" n      a number,               "nan"  None / NaN                *)
(***************************************************************************)
\* most rows of an enumerated payload or frame
MaxRows == 3

\* days 1..MaxDay and closing prices 1..MaxClose of the enumerated rows
MaxDay == 2

MaxClose == 2

Cell(k, n) == [k |-> k, n |-> n]

NaN == Cell("nan", 0)

DateCol == <<"D", "a", "t", "e">>

DatetimeCol == <<"D", "a", "t", "e", "t", "i", "m", "e">>

OpenCol == <<"O", "p", "e", "n">>

HighCol == <<"H", "i", "g", "h">>

LowCol == <<"L", "o", "w">>

CloseCol == <<"C", "l", "o", "s", "e">>

VolumeCol == <<"V", "o", "l", "u", "m", "e">>

HasColumn(df, name) == \E j \in 1..Len(df.columns) : df.columns[j] = name

ColumnIndex(df, name) == CHOOSE j \in 1..Len(df.columns) : df.columns[j] = name

NoFrame == [columns |-> <<>>, index |-> <<>>, ix |-> <<>>, rows |-> <<>>]

Permutations(n) == {p \in [1..n -> 1..n] : \A i, j \in 1..n : p[i] = p[j] => i = j}

\* DataFrame.sort_values(name) with the default kind="quicksort", which
\* pandas documents as not stable: rows with a defined key come first in
\* ascending key order, equal keys in an order the algorithm does not fix;
\* rows whose key is missing are appended in their original order.
SortOrders(rows, j) ==
    {p \in Permutations(Len(rows)) :
        \A a, b \in 1..Len(rows) : a < b =>
            LET x == rows[p[a]][j]
                y == rows[p[b]][j]
            IN  /\ x.k = "nat" => y.k = "nat"
                /\ (x.k = "ts" /\ y.k = "ts") => x.n <= y.n
                /\ (x.k = "nat" /\ y.k = "nat") => p[a] < p[b]}

SortValues(df, name) ==
    {[df EXCEPT !.rows = [i \in 1..Len(df.rows) |-> df.rows[p[i]]]] :
        p \in SortOrders(df.rows, ColumnIndex(df, name))}

\* pd.to_datetime of one cell
ToDatetimeCell(c) ==
    IF c.k \in {"datestr", "ts"} THEN Cell("ts", c.n) ELSE Cell("nat", 0)

\* pd.to_datetime(df[name]) raises ValueError on an unparseable value
DatetimeFails(df, j) == \E i \in 1..Len(df.rows) : df.rows[i][j].k = "badstr"

\* df[name] = pd.to_datetime(df[name])
WithDatetime(df, j) ==
    [df EXCEPT !.rows = [i \in 1..Len(df.rows) |->
        [df.rows[i] EXCEPT ![j] = ToDatetimeCell(df.rows[i][j])]]]

(***************************************************************************)
(* utils.normalize_history_payload                                         *)
(***************************************************************************)
\* the header names of the enumerated payloads, in the order pd.DataFrame
\* lists them as columns
HeaderOrder ==
    << <<"d", "a", "t", "e">>, <<"D", "a", "t", "e", " ">>,
       <<"c", "l", "o", "s", "e">>, <<" ", "C", "L", "O", "S", "E">>,
       <<"v", "o", "l">>, <<"t", "s">> >>

\* pd.DataFrame(data) for a sequence of mappings
DataFrame(data) ==
    LET Used(h) == \E i \in 1..Len(data) : h \in DOMAIN data[i]
        cols == SelectSeq(HeaderOrder, Used)
    IN  [columns |-> cols,
         index |-> <<>>,
         ix |-> <<>>,
         rows |-> [i \in 1..Len(data) |->
                     [j \in 1..Len(cols) |->
                         IF cols[j] \in DOMAIN data[i] THEN data[i][cols[j]] ELSE NaN]]]

\* DataFrame.empty: no rows or no columns
IsEmpty(df) == Len(df.rows) = 0 \/ Len(df.columns) = 0

\* the alias table of normalize_history_payload (lines 95-108)
ColumnMap(original) ==
    LET normalized == Lower(Strip(original))
    IN  IF normalized = <<"d", "a", "t", "e">> THEN DateCol
        ELSE IF normalized = <<"o", "p", "e", "n">> THEN OpenCol
        ELSE IF normalized \in {<<"h", "i", "g", "h">>,
                                <<"h", "i", "g", "h", "_", "p", "r", "i", "c", "e">>}
             THEN HighCol
        ELSE IF normalized \in {<<"l", "o", "w">>,
                                <<"l", "o", "w", "_", "p", "r", "i", "c", "e">>}
             THEN LowCol
        ELSE IF normalized = <<"c", "l", "o", "s", "e">> THEN CloseCol
        ELSE IF normalized \in {<<"v", "o", "l", "u", "m", "e">>, <<"v", "o", "l">>}
             THEN VolumeCol
        ELSE original

Rename(df) == [df EXCEPT !.columns = [j \in 1..Len(df.columns) |-> ColumnMap(df.columns[j])]]

CountColumn(df, name) == Cardinality({j \in 1..Len(df.columns) : df.columns[j] = name})

Failure(e) == [error |-> e, df |-> NoFrame]

NormalizeHistoryPayload_DateOnly(data) ==
    LET df == DataFrame(data)
        renamed == Rename(df)
    IN  IF IsEmpty(df) THEN {Failure("EmptyPayload")}
        ELSE IF ~HasColumn(renamed, DateCol) /\ ~HasColumn(renamed, CloseCol)
             THEN {Failure("MissingRequiredFields")}
        ELSE IF ~HasColumn(renamed, DateCol) THEN {[error |-> "none", df |-> renamed]}
        ELSE IF CountColumn(renamed, DateCol) > 1 THEN {Failure("DateParseError")}
        ELSE IF DatetimeFails(renamed, ColumnIndex(renamed, DateCol))
             THEN {Failure("DateParseError")}
        ELSE {[error |-> "none", df |-> d] :
                d \in SortValues(WithDatetime(renamed, ColumnIndex(renamed, DateCol)), DateCol)}

\* The set of outcomes of normalize_history_payload(data): one failure, or
\* the frames sort_values may return.  With two columns renamed to Date,
\* df["Date"] is a frame and pd.to_datetime raises ValueError.
NormalizeHistoryPayload(data) ==
    LET df == DataFrame(data)
        renamed == Rename(df)
    IN  IF IsEmpty(df) THEN {Failure("EmptyPayload")}
        ELSE IF ~HasColumn(renamed, DateCol) \/ ~HasColumn(renamed, CloseCol)
             THEN {Failure("MissingRequiredFields")}
        ELSE IF CountColumn(renamed, DateCol) > 1 THEN {Failure("DateParseError")}
        ELSE IF DatetimeFails(renamed, ColumnIndex(renamed, DateCol))
             THEN {Failure("DateParseError")}
        ELSE {[error |-> "none", df |-> d] :
                d \in SortValues(WithDatetime(renamed, ColumnIndex(renamed, DateCol)), DateCol)}

DateKeys == {HeaderOrder[1], HeaderOrder[2]}

CloseKeys == {HeaderOrder[3], HeaderOrder[4]}

KeySets ==
    { {}, {HeaderOrder[1], HeaderOrder[3]}, {HeaderOrder[2], HeaderOrder[4], HeaderOrder[5]},
      {HeaderOrder[3], HeaderOrder[5]}, {HeaderOrder[1], HeaderOrder[6]},
      {HeaderOrder[1], HeaderOrder[2], HeaderOrder[3]} }

KeySets_DateOnly == {HeaderOrder[1], HeaderOrder[6]}

KeySets_Full == {HeaderOrder[1], HeaderOrder[3]}

DateCells == {Cell("datestr", d) : d \in 1..MaxDay} \cup {Cell("badstr", 0), NaN}

CloseCells == {Cell("num", c) : c \in 1..MaxClose}

\* one record of a payload: the same date under every date key, the same
\* close under every close key, 5 under any other key
PayloadRow(keys, d, c) ==
    [h \in keys |-> IF h \in DateKeys THEN d ELSE IF h \in CloseKeys THEN c ELSE Cell("num", 5)]

SeqsUpTo(S, n) == UNION {[1..k -> S] : k \in 0..n}

Payloads(n) ==
    {[i \in 1..Len(cells) |-> PayloadRow(keys, cells[i][1], cells[i][2])] :
        keys \in KeySets, cells \in SeqsUpTo(DateCells \X CloseCells, n)}

PayloadInit ==
    /\ pc = "input"
    /\ op = "normalize_history_payload"
    /\ arg \in Payloads(MaxRows)
    /\ res = NoValue
    /\ calls = 0
    /\ logs = 0

NormalizeHistoryPayloadCall ==
    /\ pc = "input"
    /\ op = "normalize_history_payload"
    /\ res' \in NormalizeHistoryPayload(arg)
    /\ pc' = "output"
    /\ UNCHANGED <<op, arg, calls, logs>>

PayloadNext == NormalizeHistoryPayloadCall

PayloadSpec == PayloadInit /\ [][PayloadNext]_vars


Keys(data) == UNION {DOMAIN data[i] : i \in 1..Len(data)}

MapsToDate(h) == Lower(Strip(h)) = <<"d", "a", "t", "e">>

MapsToClose(h) == Lower(Strip(h)) = <<"c", "l", "o", "s", "e">>

DateHeaders(data) == {h \in Keys(data) : MapsToDate(h)}

CloseHeaders(data) == {h \in Keys(data) : MapsToClose(h)}

HasBadDate(data) ==
    \E i \in 1..Len(data) : \E h \in DOMAIN data[i] : MapsToDate(h) /\ data[i][h].k = "badstr"

\* C7 (as stated): normalize_history_payload fails with EmptyPayload when the
\* input sequence is empty, fails with MissingRequiredFields when no column
\* maps to Date or no column maps to Close, and otherwise succeeds with a
\* series that has both a Date and a Close column.
C7_OtherwiseSucceeds ==
    (pc = "output" /\ op = "normalize_history_payload") =>
        /\ Len(arg) = 0 => res.error = "EmptyPayload"
        /\ (Len(arg) > 0 /\ (DateHeaders(arg) = {} \/ CloseHeaders(arg) = {})) =>
               res.error = "MissingRequiredFields"
        /\ (Len(arg) > 0 /\ DateHeaders(arg) # {} /\ CloseHeaders(arg) # {}) =>
               /\ res.error = "none"
               /\ HasColumn(res.df, DateCol)
               /\ HasColumn(res.df, CloseCol)

\* C7 (amended): EmptyPayload when the sequence is empty or none of its
\* records has a field; MissingRequiredFields when there are fields but no
\* column maps to Date or none maps to Close; the ValueError of pd.to_datetime
\* when two columns map to Date or a date value does not parse; otherwise
\* success with both a Date and a Close column.
C7_PayloadOutcome ==
    (pc = "output" /\ op = "normalize_history_payload") =>
        /\ (Len(arg) = 0 \/ Keys(arg) = {}) => res.error = "EmptyPayload"
        /\ (Keys(arg) # {} /\ (DateHeaders(arg) = {} \/ CloseHeaders(arg) = {})) =>
               res.error = "MissingRequiredFields"
        /\ (DateHeaders(arg) # {} /\ CloseHeaders(arg) # {}
               /\ (Cardinality(DateHeaders(arg)) > 1 \/ HasBadDate(arg))) =>
               res.error = "DateParseError"
        /\ (DateHeaders(arg) # {} /\ CloseHeaders(arg) # {}
               /\ Cardinality(DateHeaders(arg)) = 1 /\ ~HasBadDate(arg)) =>
               /\ res.error = "none"
               /\ HasColumn(res.df, DateCol)
               /\ HasColumn(res.df, CloseCol)
               /\ Len(res.df.rows) = Len(arg)

\* a payload of two or more records keyed "Date " and " CLOSE" was accepted
C7_Witness_AliasAccepted ==
    /\ pc = "output" /\ op = "normalize_history_payload"
    /\ Len(arg) >= 2
    /\ HeaderOrder[2] \in Keys(arg)
    /\ res.error = "none"
    /\ HasColumn(res.df, CloseCol)

\* C10: for every accepted payload the result is the input rows permuted into
\* ascending date order, and rows with equal dates keep their input order.
C10_StableSort ==
    (pc = "output" /\ op = "normalize_history_payload" /\ res.error = "none") =>
        LET j == ColumnIndex(res.df, DateCol)
            src == WithDatetime(Rename(DataFrame(arg)), j).rows
        IN  \E p \in Permutations(Len(src)) :
                /\ \A i \in 1..Len(src) : res.df.rows[i] = src[p[i]]
                /\ \A a, b \in 1..Len(src) : a < b =>
                       /\ (src[p[a]][j].k = "ts" /\ src[p[b]][j].k = "ts") =>
                              src[p[a]][j].n <= src[p[b]][j].n
                       /\ src[p[a]][j] = src[p[b]][j] => p[a] < p[b]

(***************************************************************************)
(* utils.generate_insights_from_history.  Of the report, the fields the    *)
(* properties below read are modelled: symbol, latest_close, volatility    *)
(* and average_daily_return.  A float is [k, num, den]: "nan", the         *)
(* rational num/den ("num"), or the square root of num/den ("sqrt").       *)
(***************************************************************************)
Num(a, b) == [k |-> "num", num |-> a, den |-> b]

Sqrt(a, b) == [k |-> "sqrt", num |-> a, den |-> b]

FloatNaN == [k |-> "nan", num |-> 0, den |-> 1]

RECURSIVE Product(_)
Product(s) == IF s = <<>> THEN 1 ELSE Head(s) * Product(Tail(s))

RECURSIVE Sum(_)
Sum(s) == IF s = <<>> THEN 0 ELSE Head(s) + Sum(Tail(s))

\* close.pct_change() without its first, undefined entry, over the common
\* denominator Product(close[1..n-1]): entry i is the numerator of
\* (close[i+1] - close[i]) / close[i]
ReturnNumerators(close) ==
    LET D == Product(SubSeq(close, 1, Len(close) - 1))
    IN  [i \in 1..(Len(close) - 1) |-> (close[i + 1] - close[i]) * (D \div close[i])]

\* Series.mean(skipna=True) of the returns: NaN when none is defined
MeanOfReturns(close) ==
    LET m == Len(close) - 1
        D == Product(SubSeq(close, 1, Len(close) - 1))
    IN  IF m < 1 THEN FloatNaN ELSE Num(Sum(ReturnNumerators(close)), m * D)

\* Series.std(skipna=True) of the returns (ddof = 1): NaN below two values
StdOfReturns(close) ==
    LET m == Len(close) - 1
        D == Product(SubSeq(close, 1, Len(close) - 1))
        A == ReturnNumerators(close)
        S == Sum(A)
    IN  IF m < 2 THEN FloatNaN
        ELSE Sqrt(Sum([i \in 1..m |-> (m * A[i] - S) * (m * A[i] - S)]), m * m * D * D * (m - 1))

\* Python `x or 0.0`: x when bool(x), and bool(nan) is True
OrZero(x) == IF x.k # "nan" /\ x.num = 0 THEN Num(0, 1) ELSE x

\* round(x, 4): NaN stays NaN; a rational is rounded to ten-thousandths
\* (half to even); a square root is kept exact, which leaves 0 at 0
Round4(x) ==
    IF x.k # "num" THEN x
    ELSE LET a == 2 * x.num * 10000 + x.den
             b == 2 * x.den
             q == a \div b
         IN  Num(IF a % b = 0 /\ q % 2 = 1 THEN q - 1 ELSE q, 10000)

\* df.reset_index() of a frame with a named index
ResetIndex(df) ==
    [columns |-> <<df.index>> \o df.columns,
     index |-> <<>>,
     ix |-> <<>>,
     rows |-> [i \in 1..Len(df.rows) |-> <<df.ix[i]>> \o df.rows[i]]]

InsightFailure(e) == [error |-> e, report |-> [symbol |-> <<>>]]

InsightReport(symbol, sorted) ==
    LET c == ColumnIndex(sorted, CloseCol)
        close == [i \in 1..Len(sorted.rows) |-> sorted.rows[i][c].n]
    IN  [symbol |-> symbol,
         latest_close |-> close[Len(close)],
         volatility |-> Round4(OrZero(StdOfReturns(close))),
         average_daily_return |-> Round4(OrZero(MeanOfReturns(close)))]

\* The set of outcomes of generate_insights_from_history(symbol, df); the
\* frames it is given have a Close column of defined, non-zero prices.
GenerateInsightsFromHistory(symbol, df) ==
    IF ~HasColumn(df, DateCol) /\ df.index # DateCol
    THEN {InsightFailure("MissingDateColumn")}
    ELSE LET aug == IF HasColumn(df, DateCol) THEN df ELSE ResetIndex(df)
             j == ColumnIndex(aug, DateCol)
         IN  IF DatetimeFails(aug, j) THEN {InsightFailure("DateParseError")}
             ELSE {[error |-> "none", report |-> InsightReport(symbol, sorted)] :
                     sorted \in SortValues(WithDatetime(aug, j), DateCol)}

PriceCells == {<<Cell("ts", d), Cell("num", c)>> : d \in 1..MaxDay, c \in 1..MaxClose}

\* frames with a Date column, with a Datetime column instead, and indexed by Date
PriceFrames(n) ==
    {[columns |-> <<DateCol, CloseCol>>, index |-> <<>>, ix |-> <<>>, rows |-> rows] :
        rows \in SeqsUpTo(PriceCells, n) \ {<<>>}}
    \cup
    {[columns |-> <<DatetimeCol, CloseCol>>, index |-> <<>>, ix |-> <<>>, rows |-> rows] :
        rows \in SeqsUpTo(PriceCells, n) \ {<<>>}}
    \cup
    {[columns |-> <<CloseCol>>, index |-> DateCol,
      ix |-> [i \in 1..Len(rows) |-> rows[i][1]],
      rows |-> [i \in 1..Len(rows) |-> <<rows[i][2]>>]] :
        rows \in SeqsUpTo(PriceCells, n) \ {<<>>}}

InsightInit ==
    /\ pc = "input"
    /\ op = "generate_insights_from_history"
    /\ arg \in [symbol : {<<"A">>}, df : PriceFrames(MaxRows)]
    /\ res = NoValue
    /\ calls = 0
    /\ logs = 0

GenerateInsightsCall ==
    /\ pc = "input"
    /\ op = "generate_insights_from_history"
    /\ res' \in GenerateInsightsFromHistory(arg.symbol, arg.df)
    /\ pc' = "output"
    /\ UNCHANGED <<op, arg, calls, logs>>

InsightNext == GenerateInsightsCall

InsightSpec == InsightInit /\ [][InsightNext]_vars

IsZero(x) == x.k # "nan" /\ x.num = 0

\* C9: the report's volatility is 0.0 for every series with fewer than two
\* defined per-step returns, its average_daily_return is 0.0 for every series
\* with no defined return, and neither is ever a non-numeric value.
C9_UndefinedStatisticIsZero ==
    (pc = "output" /\ op = "generate_insights_from_history" /\ res.error = "none") =>
        /\ Len(arg.df.rows) - 1 < 2 => IsZero(res.report.volatility)
        /\ Len(arg.df.rows) - 1 < 1 => IsZero(res.report.average_daily_return)
        /\ res.report.volatility.k # "nan"
        /\ res.report.average_daily_return.k # "nan"


(***************************************************************************)
(* The provider (yfinance) and utils.download_historical_data.             *)
(* world = [provider, now]: how the provider answers this request          *)
(* ("unavailable": the call raises a transport error, which is not a       *)
(* ValueError; "empty": an empty info mapping or an empty history;         *)
(* "data": a usable answer) and the value of datetime.utcnow().            *)
(***************************************************************************)
DEFAULT_INTERVAL == "1d"

\* yfinance names the history index "Datetime" for intraday intervals and
\* "Date" for daily and longer ones
IntradayIntervals == {"1h"}

IndexName(interval) == IF interval \in IntradayIntervals THEN DatetimeCol ELSE DateCol

\* ticker.history(...) when the provider has data, after
\* .loc[:, ["Open", "High", "Low", "Close", "Volume"]] and tz_convert(None)
ProviderHistory(interval) ==
    [columns |-> <<OpenCol, HighCol, LowCol, CloseCol, VolumeCol>>,
     index |-> IndexName(interval),
     ix |-> <<Cell("ts", 1), Cell("ts", 2)>>,
     rows |-> << <<Cell("num", 1), Cell("num", 2), Cell("num", 1), Cell("num", 2), Cell("num", 7)>>,
                 <<NaN, Cell("num", 3), Cell("num", 2), Cell("num", 2), Cell("num", 9)>> >>]

Download(e, df, n) == [error |-> e, df |-> df, calls |-> n]

DownloadHistoricalData_RetryEmpty(symbol, start, end, interval, world) ==
    LET range == BuildDateRange(start, end, world.now, DEFAULT_HISTORY_DAYS)
    IN  IF range.error # "none" THEN Download(range.error, NoFrame, 0)
        ELSE IF world.provider = "unavailable" THEN Download("ProviderUnavailable", NoFrame, 1)
        ELSE IF world.provider = "empty" THEN Download("NoDataFound", NoFrame, 2)
        ELSE Download("none", ResetIndex(ProviderHistory(interval)), 1)

\* utils.download_historical_data: the outcome and the number of provider
\* calls made (yf.Ticker(symbol) itself makes none)
DownloadHistoricalData(symbol, start, end, interval, world) ==
    LET range == BuildDateRange(start, end, world.now, DEFAULT_HISTORY_DAYS)
    IN  IF range.error # "none" THEN Download(range.error, NoFrame, 0)
        ELSE IF world.provider = "unavailable" THEN Download("ProviderUnavailable", NoFrame, 1)
        ELSE IF world.provider = "empty" THEN Download("NoDataFound", NoFrame, 1)
        ELSE Download("none", ResetIndex(ProviderHistory(interval)), 1)

\* float(round(x, 4)) / int(x) of a price cell, 0 for NaN
CellOrZero(c) == IF c.k = "nan" THEN 0 ELSE c.n

\* utils.historical_records_from_dataframe: getattr(row, "Date") raises
\* AttributeError when the frame has no Date column
HistoricalRecordsFromDataframe(df) ==
    IF ~HasColumn(df, DateCol) THEN [error |-> "AttributeError", records |-> <<>>]
    ELSE [error |-> "none",
          records |-> [i \in 1..Len(df.rows) |->
              [date |-> df.rows[i][ColumnIndex(df, DateCol)].n,
               open |-> CellOrZero(df.rows[i][ColumnIndex(df, OpenCol)]),
               high |-> CellOrZero(df.rows[i][ColumnIndex(df, HighCol)]),
               low |-> CellOrZero(df.rows[i][ColumnIndex(df, LowCol)]),
               close |-> CellOrZero(df.rows[i][ColumnIndex(df, CloseCol)]),
               volume |-> CellOrZero(df.rows[i][ColumnIndex(df, VolumeCol)])]]]

(***************************************************************************)
(* routes.py.  A response is [status, raised, body, data_source, data,     *)
(* calls, logs]: the HTTP status, the exception raised while serving       *)
(* ("none" when none was), the kind of body ("error": {"error": message},  *)
(* "json": the result, "unhandled": the exception left the handler and     *)
(* Flask answered 500), the handler's data_source, the result, and the     *)
(* numbers of provider calls and of warnings logged.                       *)
(***************************************************************************)
\* the exceptions of the model that are instances of ValueError
ValueErrors ==
    {"InvalidSymbol", "InvalidDate", "InvalidRange", "NoDataFound", "EmptyPayload",
     "MissingRequiredFields", "MissingDateColumn", "DateParseError"}

Response(status, raised, body, source, data, n, w) ==
    [status |-> status, raised |-> raised, body |-> body, data_source |-> source,
     data |-> data, calls |-> n, logs |-> w]

\* _build_error(message, status_code)
BuildError(raised, status_code, n, w) == Response(status_code, raised, "error", "unset", <<>>, n, w)

\* an exception no except clause of the handler matches
Unhandled(raised, n) == Response(500, raised, "unhandled", "unset", <<>>, n, 0)

\* routes.company_info
CompanyInfo(symbol, world) ==
    LET sym == NormalizeSymbol(symbol)
    IN  IF sym.error # "none" THEN BuildError(sym.error, 400, 0, 0)
        ELSE IF world.provider = "unavailable" THEN BuildError("ProviderUnavailable", 502, 1, 1)
        ELSE IF world.provider = "empty" THEN BuildError("none", 404, 1, 0)
        ELSE Response(200, "none", "json", "unset", sym.value, 1, 0)

\* routes.market_data
MarketData(symbol, world) ==
    LET sym == NormalizeSymbol(symbol)
    IN  IF sym.error # "none" THEN BuildError(sym.error, 400, 0, 0)
        ELSE IF world.provider = "unavailable" THEN BuildError("ProviderUnavailable", 502, 1, 1)
        ELSE Response(200, "none", "json", "unset", sym.value, 1, 0)

\* payload.get("interval", DEFAULT_INTERVAL)
IntervalOf(req) == IF req.interval.some THEN req.interval.v ELSE DEFAULT_INTERVAL

\* routes.historical_data
HistoricalData(req, world) ==
    IF req.body # "object" THEN BuildError("none", 400, 0, 0)
    ELSE LET sym == NormalizeSymbol(req.symbol)
         IN  IF sym.error # "none" THEN BuildError(sym.error, 400, 0, 0)
             ELSE LET d == DownloadHistoricalData(sym.value, req.start, req.end,
                                                  IntervalOf(req), world)
                      recs == HistoricalRecordsFromDataframe(d.df)
                  IN  IF d.error \in ValueErrors THEN BuildError(d.error, 400, d.calls, 0)
                      ELSE IF d.error # "none" THEN Unhandled(d.error, d.calls)
                      ELSE IF recs.error # "none" THEN Unhandled(recs.error, d.calls)
                      ELSE Response(200, "none", "json", "unset", recs.records, d.calls, 0)

\* lines 160-163 of routes.analytical_insights, outside the try block
InsightResponses(symbol, df, source, n) ==
    {IF o.error # "none" THEN Unhandled(o.error, n)
     ELSE Response(200, "none", "json", source, o.report, n, 0) :
        o \in GenerateInsightsFromHistory(symbol, df)}

AnalyticalInsights_DatesAlways(req, world) ==
    IF req.body # "object" THEN {BuildError("none", 400, 0, 0)}
    ELSE LET sym == NormalizeSymbol(req.symbol)
             range == BuildDateRange(req.start, req.end, world.now, DEFAULT_HISTORY_DAYS)
         IN  IF sym.error # "none" THEN {BuildError(sym.error, 400, 0, 0)}
             ELSE IF range.error # "none" THEN {BuildError(range.error, 400, 0, 0)}
             ELSE IF Truthy(req.historical_data)
             THEN UNION {IF h.error # "none" THEN {BuildError(h.error, 400, 0, 0)}
                         ELSE InsightResponses(sym.value, h.df, "payload", 0) :
                            h \in NormalizeHistoryPayload(req.historical_data.v)}
             ELSE LET d == DownloadHistoricalData(sym.value, req.start, req.end,
                                                  IntervalOf(req), world)
                  IN  IF d.error \in ValueErrors THEN {BuildError(d.error, 400, d.calls, 0)}
                      ELSE IF d.error # "none" THEN {Unhandled(d.error, d.calls)}
                      ELSE InsightResponses(sym.value, d.df, "yfinance", d.calls)

\* routes.analytical_insights: the set of responses it may give
AnalyticalInsights(req, world) ==
    IF req.body # "object" THEN {BuildError("none", 400, 0, 0)}
    ELSE LET sym == NormalizeSymbol(req.symbol)
         IN  IF sym.error # "none" THEN {BuildError(sym.error, 400, 0, 0)}
             ELSE IF Truthy(req.historical_data)
             THEN UNION {IF h.error # "none" THEN {BuildError(h.error, 400, 0, 0)}
                         ELSE InsightResponses(sym.value, h.df, "payload", 0) :
                            h \in NormalizeHistoryPayload(req.historical_data.v)}
             ELSE LET d == DownloadHistoricalData(sym.value, req.start, req.end,
                                                  IntervalOf(req), world)
                  IN  IF d.error \in ValueErrors THEN {BuildError(d.error, 400, d.calls, 0)}
                      ELSE IF d.error # "none" THEN {Unhandled(d.error, d.calls)}
                      ELSE InsightResponses(sym.value, d.df, "yfinance", d.calls)

(***************************************************************************)
(* The requests served.                                                    *)
(***************************************************************************)
Worlds == [provider : {"unavailable", "empty", "data"}, now : NowValues]

RequestSymbols == {Absent, Some(<<>>), Some(<<" ">>), Some(<<"a">>), Some(<<" ", "a", " ">>)}

RequestDates ==
    {Absent, Some(<<FirstYear, 1, 1>>), Some(<<FirstYear, 12, 31>>), Some(<<FirstYear, 13, 1>>)}

RequestIntervals == {Absent, Some("1d"), Some("1h")}

\* historical_data: missing, [], [{}], a record without close, records with
\* an unparseable date, and well-formed records
RequestPayloads ==
    {Absent, Some(<<>>), Some(<< PayloadRow({}, NaN, NaN) >>),
     Some(<< PayloadRow(KeySets_DateOnly, Cell("datestr", 1), NaN) >>),
     Some(<< PayloadRow(KeySets_Full, Cell("badstr", 0), Cell("num", 1)) >>),
     Some(<< PayloadRow(KeySets_Full, Cell("datestr", 1), Cell("num", 1)) >>),
     Some(<< PayloadRow(KeySets_Full, Cell("datestr", 2), Cell("num", 1)),
             PayloadRow(KeySets_Full, Cell("datestr", 1), Cell("num", 2)) >>)}

GetRequests == [symbol : RequestSymbols]

\* request.get_json(force=True, silent=True): None for a missing or
\* unparseable body ("missing"), {} ("empty"), or an object with fields
PostRequests ==
    [body : {"object"}, symbol : RequestSymbols, historical_data : RequestPayloads,
     start : RequestDates, end : RequestDates, interval : RequestIntervals]
    \cup
    [body : {"missing", "empty"}, symbol : {Absent}, historical_data : {Absent},
     start : {Absent}, end : {Absent}, interval : {Absent}]

NoRequest == [req |-> [body |-> "none"], world |-> [provider |-> "none", now |-> 0]]

Init ==
    /\ pc = "idle"
    /\ op = "none"
    /\ arg = NoRequest
    /\ res = NoValue
    /\ calls = 0
    /\ logs = 0

CompanyInfoRequest ==
    /\ pc = "idle"
    /\ \E req \in GetRequests, world \in Worlds :
          \E r \in {CompanyInfo(req.symbol, world)} :
            /\ pc' = "done"
            /\ op' = "company_info"
            /\ arg' = [req |-> req, world |-> world]
            /\ res' = [status |-> r.status, raised |-> r.raised, body |-> r.body,
                       data_source |-> r.data_source, data |-> r.data]
            /\ calls' = r.calls
            /\ logs' = r.logs

MarketDataRequest ==
    /\ pc = "idle"
    /\ \E req \in GetRequests, world \in Worlds :
          \E r \in {MarketData(req.symbol, world)} :
            /\ pc' = "done"
            /\ op' = "market_data"
            /\ arg' = [req |-> req, world |-> world]
            /\ res' = [status |-> r.status, raised |-> r.raised, body |-> r.body,
                       data_source |-> r.data_source, data |-> r.data]
            /\ calls' = r.calls
            /\ logs' = r.logs

HistoricalDataRequest ==
    /\ pc = "idle"
    /\ \E req \in PostRequests, world \in Worlds :
          \E r \in {HistoricalData(req, world)} :
            /\ pc' = "done"
            /\ op' = "historical_data"
            /\ arg' = [req |-> req, world |-> world]
            /\ res' = [status |-> r.status, raised |-> r.raised, body |-> r.body,
                       data_source |-> r.data_source, data |-> r.data]
            /\ calls' = r.calls
            /\ logs' = r.logs

AnalyticalInsightsRequest ==
    /\ pc = "idle"
    /\ \E req \in PostRequests, world \in Worlds :
          \E r \in AnalyticalInsights(req, world) :
            /\ pc' = "done"
            /\ op' = "analysis"
            /\ arg' = [req |-> req, world |-> world]
            /\ res' = [status |-> r.status, raised |-> r.raised, body |-> r.body,
                       data_source |-> r.data_source, data |-> r.data]
            /\ calls' = r.calls
            /\ logs' = r.logs

\* the response has been sent; nothing of the request is kept
EndRequest ==
    /\ pc = "done"
    /\ pc' = "idle"
    /\ op' = "none"
    /\ arg' = NoRequest
    /\ res' = NoValue
    /\ calls' = 0
    /\ logs' = 0

Next ==
    \/ CompanyInfoRequest
    \/ MarketDataRequest
    \/ HistoricalDataRequest
    \/ AnalyticalInsightsRequest
    \/ EndRequest

Spec == Init /\ [][Next]_vars


(***************************************************************************)
(* Properties of the request handlers.                                     *)
(***************************************************************************)
Served(name) == pc = "done" /\ op = name

\* the validation errors of the error taxonomy
ValidationErrors ==
    {"InvalidSymbol", "InvalidDate", "InvalidRange", "NoDataFound", "EmptyPayload",
     "MissingRequiredFields", "MissingDateColumn"}

\* C1: on POST /api/historical-data and POST /api/analysis every validation
\* error raised while serving a request ends it with status 400 and a body
\* {"error": message}; none leaves the handler uncaught.
C1_ValidationErrorIs400 ==
    ((Served("historical_data") \/ Served("analysis")) /\ res.raised \in ValidationErrors) =>
        (res.status = 400 /\ res.body = "error")

Malformed(x) == x.some /\ ~IsValidDate(x.v)

InvalidSymbol(x) == ~x.some \/ IsBlank(x.v)

StartAfterEnd(a) ==
    /\ WellFormedOrAbsent(a.req.start) /\ WellFormedOrAbsent(a.req.end)
    /\ ResolvedStart([start |-> a.req.start, end |-> a.req.end, now |-> a.world.now])
         > ResolvedEnd([start |-> a.req.start, end |-> a.req.end, now |-> a.world.now])

\* the provider was asked and had nothing for the symbol, range and interval
NoDataFound == calls = 1 /\ arg.world.provider = "empty"

C3_ProviderUnavailableIs502 ==
    (pc = "done" /\ res.raised = "ProviderUnavailable") => (res.status = 502 /\ logs = 1)

\* C4: in POST /api/analysis the provider fetch is skipped and data_source is
\* "payload" exactly when the body supplied historical_data (an empty sequence
\* included, which fails with EmptyPayload); otherwise the fetch runs and
\* data_source is "yfinance".
C4_PayloadSuppliedSkipsFetch ==
    (Served("analysis") /\ arg.req.body = "object" /\ Truthy(arg.req.symbol)) =>
        /\ arg.req.historical_data.some =>
               /\ calls = 0
               /\ res.status = 200 => res.data_source = "payload"
               /\ arg.req.historical_data.v = <<>> => res.raised = "EmptyPayload"
        /\ ~arg.req.historical_data.some =>
               /\ calls = 1 \/ res.raised \in {"InvalidDate", "InvalidRange"}
               /\ res.status = 200 => res.data_source = "yfinance"

\* C8: every request issues at most one provider call, also after the call
\* failed or returned nothing.
C8_AtMostOneProviderCall ==
    /\ calls <= 1
    /\ (pc = "done" /\ res.raised \in {"ProviderUnavailable", "NoDataFound"}) => calls = 1

\* the provider returned an empty history and the request ended
C8_Witness_EmptyHistory ==
    /\ Served("historical_data")
    /\ res.raised = "NoDataFound"
    /\ calls = 1

=============================================================================
